---- MODULE Spec2Model ----
(***************************************************************************)
(* OrbitBharat: the CME predictor's accuracy cache with its background     *)
(* validation thread (ml_pipeline/predictor.py), the request handlers that *)
(* reach it (api/server.py) and the DSCOVR telemetry cache                 *)
(* (ml_pipeline/data_loader.py).                                           *)
(*                                                                         *)
(* Threads.  Every handler of api/server.py is an `async def` coroutine    *)
(* without an await, and startup() is one too: the event loop runs them    *)
(* one after the other on a single thread.  The only other thread is the   *)
(* daemon thread _launch_bg_validation starts.  The model therefore has    *)
(* one event-loop process, whose handlers advance statement by statement,  *)
(* and one process per started worker thread; their statements interleave  *)
(* freely (the GIL makes each attribute read or write atomic, nothing      *)
(* more).                                                                  *)
(*                                                                         *)
(* Numbers.  Percentages are kept in tenths of a percent (87.3 -> 873),    *)
(* AUC in thousandths (0.91 -> 910), scores in percent (0.5 -> 50), times  *)
(* in seconds.                                                             *)
(***************************************************************************)
EXTENDS Integers, Sequences, FiniteSets, TLC

(***************************************************************************)
(* Bounds of the model.                                                    *)
(***************************************************************************)
\* worker threads that may be started in one behaviour
MaxRuns == 2
\* days the clock may advance in one behaviour
MaxDays == 2

(***************************************************************************)
(* Small helpers.                                                          *)
(***************************************************************************)
Max(a, b) == IF a >= b THEN a ELSE b

RECURSIVE SumOver(_, _)
\* sum(f[x] for x in S)
SumOver(S, f) ==
    IF S = {} THEN 0
    ELSE LET x == CHOOSE y \in S : TRUE
         IN  f[x] + SumOver(S \ {x}, f)

RECURSIVE Pow10(_)
Pow10(d) == IF d = 0 THEN 1 ELSE 10 * Pow10(d - 1)

RECURSIVE RoundTo(_, _, _)
\* round(num / den, d) times 10^d, for num >= 0 and den > 0: nearest, a half
\* goes to the even digit (computed digit by digit, so that no product
\* leaves 32 bits)
RoundTo(num, den, d) ==
    IF d = 0
    THEN LET q == num \div den
             r == num % den
         IN  IF 2 * r > den \/ (2 * r = den /\ q % 2 = 1) THEN q + 1 ELSE q
    ELSE (num \div den) * Pow10(d) + RoundTo((num % den) * 10, den, d - 1)

(***************************************************************************)
(* predictor.py: the historical catalog and the constants of __init__.     *)
(***************************************************************************)
HISTORICAL_CME_CATALOG ==
    (1850 :> 120) @@ (1860 :> 180) @@ (1870 :> 160) @@ (1880 :> 140) @@
    (1890 :> 200) @@ (1900 :> 160) @@ (1910 :> 190) @@ (1920 :> 170) @@
    (1930 :> 250) @@ (1940 :> 290) @@ (1950 :> 380) @@ (1960 :> 280) @@
    (1970 :> 310) @@ (1980 :> 420) @@ (1990 :> 520) @@ (2000 :> 1340) @@
    (2010 :> 1280) @@ (2020 :> 980)

Decades == DOMAIN HISTORICAL_CME_CATALOG

TOTAL_HISTORICAL_EVENTS == SumOver(Decades, HISTORICAL_CME_CATALOG)

CACHE_TTL_SECONDS == 86400

\* _accuracy_cache_time = None
NoTime == -1

\* self._accuracy_cache is None (never assigned by the code; the test of
\* get_historical_accuracy line 329 reads it)
NoReport == [none |-> TRUE]

DefaultNote == "Default metrics from 1850-2026 historical CME catalog"
ValidatedNote == "Validated on synthetic solar-wind windows proportionally sampled across 1850-2026"
FallbackNote == "Fallback metrics (DONKI unreachable) - using historical catalog only"

\* computed_at: 'pre-computed'
PreComputed == -1

\* the report __init__ seeds the cache with
DefaultReport ==
    [accuracy |-> 873, precision |-> 821, recall |-> 794, f1_score |-> 807,
     auc_roc |-> 910, validation_period |-> "1850-2026",
     total_events_tested |-> 6000,
     historical_cme_catalog |-> TOTAL_HISTORICAL_EVENTS,
     donki_live_events |-> 0,
     true_positives |-> 2382, false_positives |-> 524,
     true_negatives |-> 2856, false_negatives |-> 618,
     computed_at |-> PreComputed, note |-> DefaultNote]

(***************************************************************************)
(* The scoring collaborator.  The network is loaded once and run in eval   *)
(* mode, so it is one fixed function for the life of the process.  The     *)
(* model lets it score every window of one scenario class alike: a scorer  *)
(* is a function from the class to the probability (in percent).           *)
(***************************************************************************)
Eras == {"carrington", "classic", "modern"}
Classes == Eras \cup {"quiet"}

Scorers ==
    { [carrington |-> 90, classic |-> 50, modern |-> 30, quiet |-> 10],
      [carrington |-> 90, classic |-> 70, modern |-> 49, quiet |-> 70] }

\* a prediction that leaves the score 0.5 to the quiet side
PredictedAbove(score) == score > 50

\* y_pred = (probs >= 0.5)
Predicted(score) == score >= 50

(***************************************************************************)
(* _compute_auc on a labelled, scored sample given by classes: sample[c]   *)
(* is [label, score, count], count windows of label and score alike.       *)
(* The result is the pair <<numerator, denominator>> of the exact area.    *)
(***************************************************************************)
RECURSIVE AucSweepAscending(_, _, _, _, _, _)
\* the sweep with its thresholds from the lowest to the highest
AucSweepAscending(sample, thresholds, tpr_prev, fpr_prev, auc, n) ==
    IF thresholds = {} THEN
        auc + (n.neg - fpr_prev) * (n.pos + tpr_prev)
    ELSE
        LET thresh == CHOOSE t \in thresholds : \A u \in thresholds : u >= t
            mask == {c \in DOMAIN sample : sample[c].score >= thresh}
            tp == SumOver({c \in mask : sample[c].label = 1},
                          [c \in DOMAIN sample |-> sample[c].count])
            fp == SumOver(mask, [c \in DOMAIN sample |-> sample[c].count]) - tp
        IN  AucSweepAscending(sample, thresholds \ {thresh}, tp, fp,
                              auc + (fp - fpr_prev) * (tp + tpr_prev), n)

RECURSIVE AucSweepRectangle(_, _, _, _, _, _)
\* the sweep with a rectangle under each point in place of the trapezoid
AucSweepRectangle(sample, thresholds, tpr_prev, fpr_prev, auc, n) ==
    IF thresholds = {} THEN
        auc + (n.neg - fpr_prev) * (n.pos + n.pos)
    ELSE
        LET thresh == CHOOSE t \in thresholds : \A u \in thresholds : u <= t
            mask == {c \in DOMAIN sample : sample[c].score >= thresh}
            tp == SumOver({c \in mask : sample[c].label = 1},
                          [c \in DOMAIN sample |-> sample[c].count])
            fp == SumOver(mask, [c \in DOMAIN sample |-> sample[c].count]) - tp
        IN  AucSweepRectangle(sample, thresholds \ {thresh}, tp, fp,
                              auc + (fp - fpr_prev) * (tp + tp), n)

RECURSIVE AucSweep(_, _, _, _, _, _)
\* the loop of lines 557-564; the area is kept times 2 * n_pos * n_neg
AucSweep(sample, thresholds, tpr_prev, fpr_prev, auc, n) ==
    IF thresholds = {} THEN
        \* line 566: auc += (1 - fpr_prev) * (1 + tpr_prev) / 2
        auc + (n.neg - fpr_prev) * (n.pos + tpr_prev)
    ELSE
        LET thresh == CHOOSE t \in thresholds : \A u \in thresholds : u <= t
            mask == {c \in DOMAIN sample : sample[c].score >= thresh}
            tp == SumOver({c \in mask : sample[c].label = 1},
                          [c \in DOMAIN sample |-> sample[c].count])
            fp == SumOver(mask, [c \in DOMAIN sample |-> sample[c].count]) - tp
        IN  AucSweep(sample, thresholds \ {thresh}, tp, fp,
                     auc + (fp - fpr_prev) * (tp + tpr_prev), n)

\* _compute_auc that answers 0 for a sample of one label
ComputeAucOneLabelZero(sample) ==
    LET n_pos == SumOver({c \in DOMAIN sample : sample[c].label = 1},
                         [c \in DOMAIN sample |-> sample[c].count])
        n_all == SumOver(DOMAIN sample, [c \in DOMAIN sample |-> sample[c].count])
        n_neg == n_all - n_pos
        thresholds == {sample[c].score : c \in {d \in DOMAIN sample : sample[d].count > 0}}
    IN  IF n_pos = 0 \/ n_neg = 0 THEN <<0, 2>>
        ELSE <<AucSweep(sample, thresholds, 0, 0, 0, [pos |-> n_pos, neg |-> n_neg]),
               2 * n_pos * n_neg>>

ComputeAuc(sample) ==
    LET n_pos == SumOver({c \in DOMAIN sample : sample[c].label = 1},
                         [c \in DOMAIN sample |-> sample[c].count])
        n_all == SumOver(DOMAIN sample, [c \in DOMAIN sample |-> sample[c].count])
        n_neg == n_all - n_pos
        thresholds == {sample[c].score : c \in {d \in DOMAIN sample : sample[d].count > 0}}
    IN  IF n_pos = 0 \/ n_neg = 0 THEN <<1, 2>>
        ELSE <<AucSweep(sample, thresholds, 0, 0, 0, [pos |-> n_pos, neg |-> n_neg]),
               2 * n_pos * n_neg>>

(***************************************************************************)
(* The metrics block shared by _run_validation (lines 485-499) and         *)
(* _compute_fallback_metrics (lines 594-606).                              *)
(***************************************************************************)
Confusion(sample) ==
    LET cnt == [c \in DOMAIN sample |-> sample[c].count]
        D == DOMAIN sample
    IN  [tp |-> SumOver({c \in D : Predicted(sample[c].score) /\ sample[c].label = 1}, cnt),
         fp |-> SumOver({c \in D : Predicted(sample[c].score) /\ sample[c].label = 0}, cnt),
         tn |-> SumOver({c \in D : ~Predicted(sample[c].score) /\ sample[c].label = 0}, cnt),
         fn |-> SumOver({c \in D : ~Predicted(sample[c].score) /\ sample[c].label = 1}, cnt)]

\* round(accuracy, 1), in tenths of a percent
Accuracy(m) == RoundTo(100 * (m.tp + m.tn), Max(m.tp + m.tn + m.fp + m.fn, 1), 1)
Precision(m) == RoundTo(100 * m.tp, Max(m.tp + m.fp, 1), 1)
Recall(m) == RoundTo(100 * m.tp, Max(m.tp + m.fn, 1), 1)
\* f1 = 2 P R / max(P + R, 1e-6) with P = 100 tp / dp and R = 100 tp / dr:
\* 200 tp / (dp + dr) when tp > 0, and 0 / 1e-6 = 0 when tp = 0
F1(m) ==
    IF m.tp = 0 THEN 0
    ELSE RoundTo(200 * m.tp, Max(m.tp + m.fp, 1) + Max(m.tp + m.fn, 1), 1)
\* round(auc_roc, 3), in thousandths
AucRoc(sample) == LET a == ComputeAuc(sample) IN RoundTo(a[1], a[2], 3)

(***************************************************************************)
(* _run_validation (lines 429-527).                                        *)
(***************************************************************************)
MAX_SAMPLES == 3000

\* the era of a decade: int(k[:4]) < 1900, 1900 <= .. < 1996, >= 1996
EraDecades(era) ==
    CASE era = "carrington" -> {d \in Decades : d < 1900}
      [] era = "classic" -> {d \in Decades : 1900 <= d /\ d < 1996}
      [] OTHER -> {d \in Decades : d >= 1996}

\* era_buckets[i][1]
EraCount(era) == SumOver(EraDecades(era), HISTORICAL_CME_CATALOG)

\* total_catalog = sum(b[1] for b in era_buckets)
TotalCatalog == SumOver(Eras, [e \in Eras |-> EraCount(e)])

\* the same number of windows for every era
EraSamplesUnweighted(era) == Max(20, MAX_SAMPLES \div 3)

\* n = max(20, int(MAX_SAMPLES * era_count / total_catalog))
EraSamples(era) == Max(20, (MAX_SAMPLES * EraCount(era)) \div TotalCatalog)

\* the labelled windows of lines 467-480, scored by the collaborator
ValidationSample(score) ==
    LET n_positive == SumOver(Eras, [e \in Eras |-> EraSamples(e)])
    IN  [c \in Classes |->
            IF c = "quiet"
            THEN [label |-> 0, score |-> score[c], count |-> n_positive]
            ELSE [label |-> 1, score |-> score[c], count |-> EraSamples(c)]]

\* _fetch_donki_cme_events: the list on success, [] on any failure; only
\* its length is read (line 441)
DonkiCount(lookup) == IF lookup.ok THEN lookup.events ELSE 0

\* total_historical (lines 445-452)
TotalHistorical(donki_count) ==
    SumOver({d \in Decades : d < 2010}, HISTORICAL_CME_CATALOG)
    + Max(HISTORICAL_CME_CATALOG[2010], donki_count)
    + HISTORICAL_CME_CATALOG[2020]

\* a validation whose quiet windows are scored by what the lookup gave
RunValidationScoredByLookup(score, lookup, utcnow) ==
    LET sample == ValidationSample([score EXCEPT !["quiet"] = IF lookup.ok THEN 90 ELSE 10])
        m == Confusion(sample)
    IN  [accuracy |-> Accuracy(m), precision |-> Precision(m),
         recall |-> Recall(m), f1_score |-> F1(m), auc_roc |-> AucRoc(sample),
         validation_period |-> "1850-2026",
         total_events_tested |-> m.tp + m.fp + m.tn + m.fn,
         historical_cme_catalog |-> TotalHistorical(DonkiCount(lookup)),
         donki_live_events |-> DonkiCount(lookup),
         era_breakdown |-> [e \in Eras |-> EraCount(e)],
         true_positives |-> m.tp, false_positives |-> m.fp,
         true_negatives |-> m.tn, false_negatives |-> m.fn,
         computed_at |-> utcnow, note |-> ValidatedNote]

\* the dictionary returned at lines 501-527
RunValidation(score, lookup, utcnow) ==
    LET sample == ValidationSample(score)
        m == Confusion(sample)
    IN  [accuracy |-> Accuracy(m), precision |-> Precision(m),
         recall |-> Recall(m), f1_score |-> F1(m), auc_roc |-> AucRoc(sample),
         validation_period |-> "1850-2026",
         total_events_tested |-> m.tp + m.fp + m.tn + m.fn,
         historical_cme_catalog |-> TotalHistorical(DonkiCount(lookup)),
         donki_live_events |-> DonkiCount(lookup),
         era_breakdown |-> [e \in Eras |-> EraCount(e)],
         true_positives |-> m.tp, false_positives |-> m.fp,
         true_negatives |-> m.tn, false_negatives |-> m.fn,
         computed_at |-> utcnow, note |-> ValidatedNote]

(***************************************************************************)
(* _compute_fallback_metrics (lines 569-624).                              *)
(***************************************************************************)
\* era_buckets of lines 578-582
FallbackEraSamples(era) ==
    CASE era = "carrington" -> 200
      [] era = "classic" -> 300
      [] OTHER -> 500

FallbackSample(score) ==
    LET n_pos == SumOver(Eras, [e \in Eras |-> FallbackEraSamples(e)])
    IN  [c \in Classes |->
            IF c = "quiet"
            THEN [label |-> 0, score |-> score[c], count |-> n_pos]
            ELSE [label |-> 1, score |-> score[c], count |-> FallbackEraSamples(c)]]

\* len(y_true) at line 615: one label per window, events and quiet
LenYTrue(sample) == SumOver(DOMAIN sample, [c \in DOMAIN sample |-> sample[c].count])

\* 'total_events_tested': len(y_true) * 2
FallbackTotalTested(sample) == LenYTrue(sample) * 2

ComputeFallbackMetrics(score, utcnow) ==
    LET sample == FallbackSample(score)
        m == Confusion(sample)
    IN  [accuracy |-> Accuracy(m), precision |-> Precision(m),
         recall |-> Recall(m), f1_score |-> F1(m), auc_roc |-> AucRoc(sample),
         validation_period |-> "1850-2026",
         total_events_tested |-> FallbackTotalTested(sample),
         historical_cme_catalog |-> TOTAL_HISTORICAL_EVENTS,
         donki_live_events |-> 0,
         true_positives |-> m.tp, false_positives |-> m.fp,
         true_negatives |-> m.tn, false_negatives |-> m.fn,
         computed_at |-> utcnow, note |-> FallbackNote]

(***************************************************************************)
(* data_loader.py: the tables of DSCOVRDataLoader.  A cell is a rational   *)
(* <<numerator, denominator>>; NaN is <<0, 0>>.  A frame has its set of    *)
(* columns and its rows in index order; a row has its time_tag t and its   *)
(* cells c.  A raw table is what _fetch_json returns: NoData (None) or the *)
(* JSON rows after the header row.                                         *)
(***************************************************************************)
NaN == <<0, 0>>
Val(n) == <<n, 1>>
\* a JSON null, and a text that is no number
RawNull == <<0, 0>>
RawBad == <<0, -1>>

NoData == << [none |-> TRUE] >>
EmptyFrame == [cols |-> {}, rows |-> <<>>]

\* df.empty
IsEmpty(df) == Len(df.rows) = 0 \/ df.cols = {}

\* pd.to_numeric(..., errors='coerce')
ToNumeric(x) == IF x \in {RawNull, RawBad} THEN NaN ELSE x

RECURSIVE SortByT(_)
\* df.sort_index() on a set of rows with distinct time tags
SortByT(rowset) ==
    IF rowset = {} THEN <<>>
    ELSE LET first == CHOOSE r \in rowset : \A q \in rowset : r.t <= q.t
         IN  <<first>> \o SortByT(rowset \ {first})

\* _parse_plasma_data / _parse_mag_data: `columns` are the numeric columns
ParseTable(data, columns) ==
    IF data = NoData \/ Len(data) = 0 THEN EmptyFrame
    ELSE [cols |-> columns,
          rows |-> SortByT({ [t |-> data[i].t,
                              c |-> [k \in columns |-> ToNumeric(data[i].c[k])]] :
                             i \in 1..Len(data) })]

PlasmaColumns == {"density", "speed", "temperature"}
MagColumns == {"bz_gsm", "bt"}

\* lines 72-91
ParsePlasmaData(data) == ParseTable(data, PlasmaColumns)
\* lines 93-111
ParseMagData(data) == ParseTable(data, MagColumns)

\* the cell of column k at time t in df, NaN where df has no such row
CellAt(df, t, k) ==
    IF \E i \in 1..Len(df.rows) : df.rows[i].t = t
    THEN df.rows[CHOOSE i \in 1..Len(df.rows) : df.rows[i].t = t].c[k]
    ELSE NaN

\* line 148: plasma_df.join(mag_df, how='outer')
OuterJoin(left, right) ==
    LET times == {left.rows[i].t : i \in 1..Len(left.rows)}
                 \cup {right.rows[i].t : i \in 1..Len(right.rows)}
        columns == left.cols \cup right.cols
    IN  [cols |-> columns,
         rows |-> SortByT({ [t |-> t,
                             c |-> [k \in columns |->
                                      IF k \in left.cols THEN CellAt(left, t, k)
                                      ELSE CellAt(right, t, k)]] : t \in times })]

\* lines 147-152
Merge(plasma_df, mag_df) ==
    IF ~IsEmpty(plasma_df) /\ ~IsEmpty(mag_df) THEN OuterJoin(plasma_df, mag_df)
    ELSE IF ~IsEmpty(plasma_df) THEN plasma_df
    ELSE mag_df

\* line 159-160: 4.03e-11 * density * temperature / bt ** 2 with inf and
\* -inf replaced by NaN; the factor 4.03e-11 is left out of the cell
BetaCell(density, temperature, bt) ==
    IF density = NaN \/ temperature = NaN \/ bt = NaN THEN NaN
    ELSE IF bt[1] = 0 THEN NaN
    ELSE <<density[1] * temperature[1] * bt[2] * bt[2],
           density[2] * temperature[2] * bt[1] * bt[1]>>

\* lines 157-162
WithBeta(df) ==
    [cols |-> df.cols \cup {"beta"},
     rows |-> [i \in 1..Len(df.rows) |->
                 [t |-> df.rows[i].t,
                  c |-> [k \in df.cols \cup {"beta"} |->
                           IF k # "beta" THEN df.rows[i].c[k]
                           ELSE IF {"density", "temperature", "bt"} \subseteq df.cols
                                THEN BetaCell(df.rows[i].c["density"],
                                              df.rows[i].c["temperature"],
                                              df.rows[i].c["bt"])
                                ELSE NaN]]]]

\* rename_map, lines 165-170
Renamed(k) == IF k = "bz_gsm" THEN "bz" ELSE k
Original(k) == IF k = "bz" THEN "bz_gsm" ELSE k

FinalCols == {"speed", "density", "temperature", "bz", "bt", "beta"}

\* lines 170-174: rename, then keep the final columns the frame has
Selected(df) ==
    LET columns == {k \in FinalCols : Original(k) \in df.cols}
    IN  [cols |-> columns,
         rows |-> [i \in 1..Len(df.rows) |->
                     [t |-> df.rows[i].t,
                      c |-> [k \in columns |-> df.rows[i].c[Original(k)]]]]]

FFILL_LIMIT == 5

\* f itself, with the value at every argument computed once: TLC computes
\* the value of a function constructor anew at each application
Strict(f) == f @@ <<>>

\* the position of the last valid value before position i, 0 if none
LastValidBefore(xs, i) ==
    LET valid == {j \in 1..(i - 1) : xs[j] # NaN}
    IN  IF valid = {} THEN 0 ELSE CHOOSE j \in valid : \A q \in valid : q <= j

\* a forward fill that knows no limit
FFillWithoutLimit(xs, limit) ==
    Strict([i \in 1..Len(xs) |->
              IF xs[i] # NaN THEN xs[i]
              ELSE LET j == LastValidBefore(xs, i)
                   IN  IF j > 0 THEN xs[j] ELSE NaN])

\* no forward fill
FFillNothing(xs, limit) == xs

\* Series.ffill(limit): a NaN takes the last valid value before it unless
\* more than `limit` NaN in a row precede and include it
FFillColumn(xs, limit) ==
    Strict([i \in 1..Len(xs) |->
              IF xs[i] # NaN THEN xs[i]
              ELSE LET j == LastValidBefore(xs, i)
                   IN  IF j > 0 /\ i - j <= limit THEN xs[j] ELSE NaN])

\* line 177: df.ffill(limit=5)
FFill(df, limit) ==
    LET filled == [k \in df.cols |->
                     FFillColumn([i \in 1..Len(df.rows) |-> df.rows[i].c[k]], limit)]
    IN  [cols |-> df.cols,
         rows |-> [i \in 1..Len(df.rows) |->
                     [t |-> df.rows[i].t,
                      c |-> [k \in df.cols |-> filled[k][i]]]]]

\* lines 146-177, for frames that are not both empty
Combined(plasma_df, mag_df) ==
    FFill(Selected(WithBeta(Merge(plasma_df, mag_df))), FFILL_LIMIT)

\* lines 140-141: the parsers run only on a raw table that is truthy
PlasmaFrame(raw) == IF raw = NoData \/ raw = <<>> THEN EmptyFrame ELSE ParsePlasmaData(raw)
MagFrame(raw) == IF raw = NoData \/ raw = <<>> THEN EmptyFrame ELSE ParseMagData(raw)


(***************************************************************************)
(* State.                                                                  *)
(***************************************************************************)
VARIABLES
    \* CMEPredictor
    validation_running,     \* self._validation_running
    accuracy_cache,         \* self._accuracy_cache
    accuracy_cache_time,    \* self._accuracy_cache_time (NoTime: None)
    scorer,                 \* self.model, as the function it computes
    \* the clock
    now,                    \* datetime.now(), in seconds
    \* the event loop thread
    handler,                \* the coroutine it runs
    pc,                     \* the statement it is at
    in_read,                \* inside get_historical_accuracy
    response,               \* what the last accuracy request returned
    \* the worker threads
    started,                \* threads started so far
    wpc,                    \* wpc[w]: the statement worker w is at
    wmetrics,               \* wmetrics[w]: its local `metrics`
    wlookup,                \* wlookup[w]: what its DONKI lookup gave
    woutcome,               \* woutcome[w]: how its run went
    \* history
    marked_stale,           \* refresh_accuracy marked the cache stale since
                            \* the last publication
    inline_fallback,        \* a request ran the fallback on its own thread
    \* DSCOVRDataLoader
    cache,                  \* self._cache, NoFrame where the key is absent
    cache_timestamp,        \* self._cache_timestamp
    \* the call of get_realtime_data in progress
    tpc,                    \* the statement it is at
    tkey,                   \* its `days`
    plasma_raw,             \* its plasma_raw
    mag_raw,                \* its mag_raw
    checked_at,             \* the time of its cache check
    \* history of get_realtime_data
    tdone,                  \* the call that has just returned
    tprev,                  \* tprev[days]: the call for `days` before that
    \* threads inside get_realtime_data of one loader
    cpc,                    \* cpc[c]: the statement caller c is at
    ckey,                   \* its `days`
    cplasma,                \* its plasma_raw
    cmag,                   \* its mag_raw
    \* predict_realtime and the prepare_model_input it calls
    apc,                    \* the statement it is at
    in_plasma,              \* what the plasma endpoint answered
    in_mag,                 \* what the mag endpoint answered
    window_minutes,         \* prepare_model_input's window_minutes
    series,                 \* df, line 197
    assembled,              \* what prepare_model_input returned or raised
    prediction,             \* what predict_realtime returned
    \* one call of a function of CMEPredictor that keeps no state
    fn,                     \* the function that is called
    probability,            \* _get_alert_level's probability
    alert_level,            \* what it returned
    hours,                  \* _format_eta's hours
    eta,                    \* what it returned
    y_labelled,             \* y_true and y_scores of the metrics block
    auc,                    \* what _compute_auc returned
    metrics                 \* the confusion matrix and what is derived from it

scheduler_vars == <<validation_running, accuracy_cache, accuracy_cache_time, scorer,
                    handler, pc, in_read, response,
                    started, wpc, wmetrics, wlookup, woutcome,
                    marked_stale, inline_fallback>>

telemetry_vars == <<cache, cache_timestamp, tpc, tkey, plasma_raw, mag_raw,
                    checked_at, tdone, tprev>>

callers_vars == <<cpc, ckey, cplasma, cmag>>

window_vars == <<apc, in_plasma, in_mag, window_minutes, series, assembled, prediction>>

function_vars == <<fn, probability, alert_level, hours, eta, y_labelled, auc, metrics>>

vars == <<scheduler_vars, now, telemetry_vars, callers_vars, window_vars, function_vars>>

predictor_vars == <<validation_running, accuracy_cache, accuracy_cache_time, scorer>>
loop_vars == <<handler, pc, in_read, response>>
worker_vars == <<started, wpc, wmetrics, wlookup, woutcome>>
clock_vars == <<now>>

Workers == 1..MaxRuns

\* the `days` get_realtime_data is called with: one key of the cache each
Days == {1, 7}

\* threads that may be inside get_realtime_data of one loader at once
MaxCallers == 2
Callers == 1..MaxCallers

\* nothing returned yet
NoResult == [none |-> TRUE]

\* a key that is not in self._cache
NoFrame == [absent |-> TRUE]
NoCall == [none |-> TRUE]

\* what the DONKI lookup of one run can give: unreachable, or a list of
\* events of some length
DonkiLookups ==
    { [ok |-> FALSE, events |-> 0],
      [ok |-> TRUE, events |-> 1500] }

NoLookup == [none |-> TRUE]
NoResponse == [none |-> TRUE]

(***************************************************************************)
(* CMEPredictor.__init__, lines 84-107: the state in which line 110 calls  *)
(* _launch_bg_validation, on the event loop inside startup().              *)
(***************************************************************************)
Init ==
    /\ validation_running = FALSE
    /\ accuracy_cache = DefaultReport
    /\ accuracy_cache_time = NoTime
    /\ scorer \in Scorers
    /\ now = 0
    /\ handler = "startup"
    /\ pc = "launch_check"
    /\ in_read = FALSE
    /\ response = NoResponse
    /\ started = 0
    /\ wpc = [w \in Workers |-> "unborn"]
    /\ wmetrics = [w \in Workers |-> NoReport]
    /\ wlookup = [w \in Workers |-> NoLookup]
    /\ woutcome = [w \in Workers |-> "none"]
    /\ marked_stale = FALSE
    /\ inline_fallback = FALSE
    \* DSCOVRDataLoader.__init__, lines 55-59
    /\ cache = [d \in Days |-> NoFrame]
    /\ cache_timestamp = [d \in Days |-> NoTime]
    /\ tpc = "idle"
    /\ tkey = 1
    /\ plasma_raw = NoData
    /\ mag_raw = NoData
    /\ checked_at = 0
    /\ tdone = NoCall
    /\ tprev = [d \in Days |-> NoCall]
    \* no thread is inside get_realtime_data
    /\ cpc = [c \in Callers |-> "idle"]
    /\ ckey = [c \in Callers |-> 1]
    /\ cplasma = [c \in Callers |-> NoData]
    /\ cmag = [c \in Callers |-> NoData]
    \* no prediction has been asked for
    /\ apc = "idle"
    /\ in_plasma = NoData
    /\ in_mag = NoData
    /\ window_minutes = 60
    /\ series = EmptyFrame
    /\ assembled = NoResult
    /\ prediction = NoResult
    \* no function is being called
    /\ fn = "none"
    /\ probability = NoResult
    /\ alert_level = NoResult
    /\ hours = NoResult
    /\ eta = NoResult
    /\ y_labelled = NoResult
    /\ auc = NoResult
    /\ metrics = NoResult

(***************************************************************************)
(* The clock.                                                              *)
(***************************************************************************)
\* A day passes: the clock advances by the time-to-live, so that a report
\* is exactly one time-to-live old after one step and older after two.
Tick ==
    /\ now < MaxDays * CACHE_TTL_SECONDS
    /\ now' = now + CACHE_TTL_SECONDS
    /\ UNCHANGED <<telemetry_vars, callers_vars, window_vars, function_vars>>
    /\ UNCHANGED <<predictor_vars, loop_vars, worker_vars,
                   marked_stale, inline_fallback>>

(***************************************************************************)
(* The event loop: server.py get_accuracy (138-144) and refresh_accuracy   *)
(* (180-188), predictor.py _launch_bg_validation (290-317) and             *)
(* get_historical_accuracy (319-338).                                      *)
(***************************************************************************)
\* where _launch_bg_validation returns to
AfterLaunch ==
    IF in_read THEN "read_return"
    ELSE IF handler = "refresh_accuracy" THEN "read_cache_check"
    ELSE "idle"

\* the handler once control is at `pcNext`
HandlerAt(pcNext) == IF pcNext = "idle" THEN "none" ELSE handler

\* @app.get("/api/accuracy"): return predictor.get_historical_accuracy()
BeginGetAccuracy ==
    /\ pc = "idle"
    /\ handler' = "get_accuracy"
    /\ pc' = "read_cache_check"
    /\ UNCHANGED <<telemetry_vars, callers_vars, window_vars, function_vars>>
    /\ UNCHANGED <<in_read, response, predictor_vars, worker_vars, clock_vars,
                   marked_stale, inline_fallback>>

\* @app.get("/api/accuracy/refresh")
BeginRefreshAccuracy ==
    /\ pc = "idle"
    /\ handler' = "refresh_accuracy"
    /\ pc' = "mark_stale"
    /\ UNCHANGED <<telemetry_vars, callers_vars, window_vars, function_vars>>
    /\ UNCHANGED <<in_read, response, predictor_vars, worker_vars, clock_vars,
                   marked_stale, inline_fallback>>

\* MarkStale as a handler that "clears cache" (the docstring's words) would
\* do it: the report is dropped together with its time
MarkStaleClearsCache ==
    /\ pc = "mark_stale"
    /\ accuracy_cache_time' = NoTime
    /\ accuracy_cache' = NoReport
    /\ marked_stale' = TRUE
    /\ pc' = "launch_check"
    /\ UNCHANGED <<telemetry_vars, callers_vars, window_vars, function_vars>>
    /\ UNCHANGED <<validation_running, scorer,
                   handler, in_read, response,
                   worker_vars, clock_vars, inline_fallback>>

\* server.py line 186: predictor._accuracy_cache_time = None  # mark stale
MarkStale ==
    /\ pc = "mark_stale"
    /\ accuracy_cache_time' = NoTime
    /\ marked_stale' = TRUE
    /\ pc' = "launch_check"
    /\ UNCHANGED <<telemetry_vars, callers_vars, window_vars, function_vars>>
    /\ UNCHANGED <<validation_running, accuracy_cache, scorer,
                   handler, in_read, response,
                   worker_vars, clock_vars, inline_fallback>>

\* AlreadyRunning without the test of the flag
NeverRunning(running) == FALSE

\* line 292: if self._validation_running: return
AlreadyRunning(running) == running

LaunchCheck ==
    /\ pc = "launch_check"
    /\ IF AlreadyRunning(validation_running)
       THEN /\ pc' = AfterLaunch
            /\ handler' = HandlerAt(AfterLaunch)
       ELSE /\ started < MaxRuns
            /\ pc' = "launch_set"
            /\ UNCHANGED handler
    /\ UNCHANGED <<telemetry_vars, callers_vars, window_vars, function_vars>>
    /\ UNCHANGED <<in_read, response, predictor_vars, worker_vars,
                   clock_vars, marked_stale, inline_fallback>>

\* LaunchSet without the store to the flag
LaunchSetSkipsFlag ==
    /\ pc = "launch_set"
    /\ pc' = "launch_start"
    /\ UNCHANGED <<telemetry_vars, callers_vars, window_vars, function_vars>>
    /\ UNCHANGED <<validation_running, accuracy_cache, accuracy_cache_time, scorer,
                   handler, in_read, response,
                   worker_vars, clock_vars, marked_stale, inline_fallback>>

\* line 294: self._validation_running = True
LaunchSet ==
    /\ pc = "launch_set"
    /\ validation_running' = TRUE
    /\ pc' = "launch_start"
    /\ UNCHANGED <<telemetry_vars, callers_vars, window_vars, function_vars>>
    /\ UNCHANGED <<accuracy_cache, accuracy_cache_time, scorer,
                   handler, in_read, response,
                   worker_vars, clock_vars, marked_stale, inline_fallback>>

\* lines 316-317: threading.Thread(target=_worker, daemon=True).start()
LaunchStart ==
    /\ pc = "launch_start"
    /\ started < MaxRuns
    /\ started' = started + 1
    /\ wpc' = [wpc EXCEPT ![started + 1] = "run_validation"]
    /\ pc' = AfterLaunch
    /\ handler' = HandlerAt(AfterLaunch)
    /\ UNCHANGED <<telemetry_vars, callers_vars, window_vars, function_vars>>
    /\ UNCHANGED <<in_read, response, predictor_vars,
                   wmetrics, wlookup, woutcome,
                   clock_vars, marked_stale, inline_fallback>>

\* line 329: if self._accuracy_cache is not None; line 338 otherwise:
\* return self._compute_fallback_metrics(), on the caller's thread
ReadCacheCheck ==
    /\ pc = "read_cache_check"
    /\ IF accuracy_cache # NoReport
       THEN /\ pc' = "read_time_check"
            /\ in_read' = TRUE
            /\ UNCHANGED <<handler, response, inline_fallback>>
       ELSE /\ response' = ComputeFallbackMetrics(scorer, now)
            /\ inline_fallback' = TRUE
            /\ pc' = "idle"
            /\ handler' = "none"
            /\ in_read' = FALSE
    /\ UNCHANGED <<telemetry_vars, callers_vars, window_vars, function_vars>>
    /\ UNCHANGED <<predictor_vars, worker_vars, clock_vars, marked_stale>>

\* line 331: self._accuracy_cache_time is not None
ReadTimeCheck ==
    /\ pc = "read_time_check"
    /\ pc' = IF accuracy_cache_time # NoTime THEN "read_age" ELSE "read_return"
    /\ UNCHANGED <<telemetry_vars, callers_vars, window_vars, function_vars>>
    /\ UNCHANGED <<handler, in_read, response, predictor_vars,
                   worker_vars, clock_vars, marked_stale, inline_fallback>>

\* lines 332-333: (datetime.now() - self._accuracy_cache_time).total_seconds()
\*                > self._CACHE_TTL_SECONDS
IsStale(time, clock) == clock - time > CACHE_TTL_SECONDS

ReadAge ==
    /\ pc = "read_age"
    /\ accuracy_cache_time # NoTime
    /\ pc' = IF IsStale(accuracy_cache_time, now) THEN "launch_check" ELSE "read_return"
    /\ UNCHANGED <<telemetry_vars, callers_vars, window_vars, function_vars>>
    /\ UNCHANGED <<handler, in_read, response, predictor_vars,
                   worker_vars, clock_vars, marked_stale, inline_fallback>>

\* line 335: return self._accuracy_cache
ReadReturn ==
    /\ pc = "read_return"
    /\ response' = accuracy_cache
    /\ pc' = "idle"
    /\ handler' = "none"
    /\ in_read' = FALSE
    /\ UNCHANGED <<telemetry_vars, callers_vars, window_vars, function_vars>>
    /\ UNCHANGED <<predictor_vars, worker_vars, clock_vars,
                   marked_stale, inline_fallback>>

EventLoop ==
    \/ BeginGetAccuracy
    \/ BeginRefreshAccuracy
    \/ MarkStale
    \/ LaunchCheck
    \/ LaunchSet
    \/ LaunchStart
    \/ ReadCacheCheck
    \/ ReadTimeCheck
    \/ ReadAge
    \/ ReadReturn

(***************************************************************************)
(* The worker thread: _worker, lines 296-314.                              *)
(***************************************************************************)
\* Publish as an update of the cached dictionary in place, cut short after
\* its first keys
PublishFieldByField(old, new) ==
    [old EXCEPT !.accuracy = new.accuracy, !.computed_at = new.computed_at]

\* lines 300 and 308: self._accuracy_cache = metrics (one reference store)
Publish(old, new) == new

\* line 299: metrics = self._run_validation() returns
RunValidationReturns(w) ==
    /\ wpc[w] = "run_validation"
    /\ \E lookup \in DonkiLookups :
          /\ wlookup' = [wlookup EXCEPT ![w] = lookup]
          /\ wmetrics' = [wmetrics EXCEPT ![w] = RunValidation(scorer, lookup, now)]
    /\ woutcome' = [woutcome EXCEPT ![w] = "validated"]
    /\ wpc' = [wpc EXCEPT ![w] = "publish"]
    /\ UNCHANGED <<telemetry_vars, callers_vars, window_vars, function_vars>>
    /\ UNCHANGED <<started, predictor_vars, loop_vars, clock_vars,
                   marked_stale, inline_fallback>>

\* line 299 raises (the scoring collaborator fails in _batch_predict, after
\* the lookup): control goes to the handler of line 304
RunValidationRaises(w) ==
    /\ wpc[w] = "run_validation"
    /\ \E lookup \in DonkiLookups : wlookup' = [wlookup EXCEPT ![w] = lookup]
    /\ wpc' = [wpc EXCEPT ![w] = "fallback"]
    /\ UNCHANGED <<telemetry_vars, callers_vars, window_vars, function_vars>>
    /\ UNCHANGED <<started, wmetrics, woutcome, predictor_vars, loop_vars,
                   clock_vars, marked_stale, inline_fallback>>

\* line 307: metrics = self._compute_fallback_metrics() returns
FallbackReturns(w) ==
    /\ wpc[w] = "fallback"
    /\ wmetrics' = [wmetrics EXCEPT ![w] = ComputeFallbackMetrics(scorer, now)]
    /\ woutcome' = [woutcome EXCEPT ![w] = "fallback"]
    /\ wpc' = [wpc EXCEPT ![w] = "publish"]
    /\ UNCHANGED <<telemetry_vars, callers_vars, window_vars, function_vars>>
    /\ UNCHANGED <<started, wlookup, predictor_vars, loop_vars, clock_vars,
                   marked_stale, inline_fallback>>

\* FallbackRaises storing the missing result
FallbackRaisesStoresNone(w) ==
    /\ wpc[w] = "fallback"
    /\ woutcome' = [woutcome EXCEPT ![w] = "failed"]
    /\ accuracy_cache' = NoReport
    /\ wpc' = [wpc EXCEPT ![w] = "finally"]
    /\ UNCHANGED <<telemetry_vars, callers_vars, window_vars, function_vars>>
    /\ UNCHANGED <<started, wmetrics, wlookup, validation_running,
                   accuracy_cache_time, scorer, loop_vars,
                   clock_vars, marked_stale, inline_fallback>>

\* line 307 raises too: lines 311-312 print, nothing is stored
FallbackRaises(w) ==
    /\ wpc[w] = "fallback"
    /\ woutcome' = [woutcome EXCEPT ![w] = "failed"]
    /\ wpc' = [wpc EXCEPT ![w] = "finally"]
    /\ UNCHANGED <<telemetry_vars, callers_vars, window_vars, function_vars>>
    /\ UNCHANGED <<started, wmetrics, wlookup, predictor_vars, loop_vars,
                   clock_vars, marked_stale, inline_fallback>>

\* lines 300 / 308
PublishCache(w) ==
    /\ wpc[w] = "publish"
    /\ accuracy_cache' = Publish(accuracy_cache, wmetrics[w])
    /\ wpc' = [wpc EXCEPT ![w] = "publish_time"]
    /\ UNCHANGED <<telemetry_vars, callers_vars, window_vars, function_vars>>
    /\ UNCHANGED <<validation_running, accuracy_cache_time, scorer,
                   started, wmetrics, wlookup, woutcome, loop_vars, clock_vars,
                   marked_stale, inline_fallback>>

\* lines 301 / 309: self._accuracy_cache_time = datetime.now()
PublishTime(w) ==
    /\ wpc[w] = "publish_time"
    /\ accuracy_cache_time' = now
    /\ marked_stale' = FALSE
    /\ wpc' = [wpc EXCEPT ![w] = "finally"]
    /\ UNCHANGED <<telemetry_vars, callers_vars, window_vars, function_vars>>
    /\ UNCHANGED <<validation_running, accuracy_cache, scorer,
                   started, wmetrics, wlookup, woutcome, loop_vars, clock_vars,
                   inline_fallback>>

\* lines 313-314: finally: self._validation_running = False
\* a worker that ends without the store of line 314
FinallyKeepsFlag(w) ==
    /\ wpc[w] = "finally"
    /\ wpc' = [wpc EXCEPT ![w] = "done"]
    /\ UNCHANGED <<telemetry_vars, callers_vars, window_vars, function_vars>>
    /\ UNCHANGED <<validation_running, accuracy_cache, accuracy_cache_time, scorer,
                   started, wmetrics, wlookup, woutcome, loop_vars, clock_vars,
                   marked_stale, inline_fallback>>

Finally(w) ==
    /\ wpc[w] = "finally"
    /\ validation_running' = FALSE
    /\ wpc' = [wpc EXCEPT ![w] = "done"]
    /\ UNCHANGED <<telemetry_vars, callers_vars, window_vars, function_vars>>
    /\ UNCHANGED <<accuracy_cache, accuracy_cache_time, scorer,
                   started, wmetrics, wlookup, woutcome, loop_vars, clock_vars,
                   marked_stale, inline_fallback>>

Worker(w) ==
    \/ RunValidationRaises(w)
    \/ RunValidationReturns(w)
    \/ FallbackRaises(w)
    \/ FallbackReturns(w)
    \/ PublishCache(w)
    \/ PublishTime(w)
    \/ Finally(w)

Next ==
    \/ Tick
    \/ EventLoop
    \/ \E w \in Workers : Worker(w)

Spec == Init /\ [][Next]_vars

(***************************************************************************)
(* Properties of the accuracy cache and its scheduler.                     *)
(***************************************************************************)
\* the worker threads that have been started and have not ended
ActiveWorkers == {w \in Workers : wpc[w] \notin {"unborn", "done"}}

\* the complete reports there are: the seeded one and what each run built
Produced == ({DefaultReport} \cup {wmetrics[w] : w \in Workers}) \ {NoReport}

\* the keys of an AccuracyReport
ReportFields ==
    {"accuracy", "precision", "recall", "f1_score", "auc_roc",
     "true_positives", "false_positives", "true_negatives", "false_negatives",
     "total_events_tested", "validation_period", "computed_at", "note"}

IsCompleteReport(r) ==
    /\ ReportFields \subseteq DOMAIN r
    /\ r.note \in {DefaultNote, ValidatedNote, FallbackNote}

C2_TriggerWhileRunningIsNoOp ==
    [][ /\ (pc = "launch_check" /\ validation_running /\ pc' # pc) =>
              /\ pc' = AfterLaunch
              /\ started' = started
              /\ wpc' = wpc
              /\ validation_running' = validation_running
        /\ started' # started =>
              /\ started' = started + 1
              /\ \A w \in 1..started : wpc[w] = "done" ]_vars

\* C2 witness: the second run is in flight, the first one has completed,
\* and one more trigger has just been ignored by a forced refresh.
C2_Witness ==
    /\ started = 2
    /\ wpc[1] = "done"
    /\ wpc[2] \in {"run_validation", "fallback", "publish"}
    /\ handler = "refresh_accuracy"
    /\ pc = "read_cache_check"
    /\ validation_running

\* C3: a metrics read never runs validation or fallback scoring on the
\* caller's thread and never waits: the cache always holds a report, and
\* each statement of get_historical_accuracy can be taken in every state it
\* is reached in, whatever the scheduler is doing.
C3_ReadReturnsCacheWithoutWaiting ==
    /\ accuracy_cache # NoReport
    /\ ~inline_fallback
    /\ pc = "read_cache_check" => ENABLED ReadCacheCheck
    /\ pc = "read_time_check" => ENABLED ReadTimeCheck
    /\ pc = "read_age" => ENABLED ReadAge
    /\ pc = "read_return" => ENABLED ReadReturn

\* C3 witness: the read of a forced refresh is about to return while the
\* worker is in the middle of _run_validation.
C3_Witness ==
    /\ handler = "refresh_accuracy"
    /\ pc = "read_return"
    /\ validation_running
    /\ \E w \in Workers : wpc[w] = "run_validation"

\* C4: what the cache holds and what a read returned is always one whole
\* report: the seeded default or the dictionary one run built, never a
\* mixture of two and never a part of one.
C4_PublishBySwap ==
    /\ accuracy_cache \in Produced
    /\ response \in Produced \cup {NoResponse}

\* C4 witness: a read returned the new report of a worker that has stored
\* the report and not yet its time.
C4_Witness ==
    \E w \in Workers :
        /\ wpc[w] = "publish_time"
        /\ response = wmetrics[w]
        /\ response # DefaultReport
        /\ accuracy_cache_time = NoTime

\* C5: the cache holds a complete report in every state and so does every
\* response; the cached report changes only when a worker that has a
\* result stores it, so a run whose validation and fallback both fail
\* leaves the previous report in place.
C5_AccuracyNeverErrors ==
    /\ [](/\ IsCompleteReport(accuracy_cache)
          /\ response # NoResponse => IsCompleteReport(response))
    /\ [][ accuracy_cache' # accuracy_cache =>
              \E w \in Workers :
                  /\ wpc[w] = "publish"
                  /\ woutcome[w] \in {"validated", "fallback"}
                  /\ accuracy_cache' = wmetrics[w] ]_vars

\* C5 witness: validation and fallback of the first run both failed, and a
\* read then returned the seeded report.
C5_Witness ==
    /\ woutcome[1] = "failed"
    /\ wpc[1] = "done"
    /\ started = 1
    /\ pc = "idle"
    /\ response = DefaultReport
    /\ accuracy_cache = DefaultReport

\* C6 (as claimed): a run whose DONKI lookup was unreachable publishes a
\* report with the fallback note.
C6_UnreachableLookupGivesFallbackNote ==
    \A w \in Workers :
        (wpc[w] = "publish_time" /\ wlookup[w] # NoLookup /\ ~wlookup[w].ok)
            => accuracy_cache.note = FallbackNote

\* C7 (as claimed): the cached report's total_events_tested equals
\* tp + fp + tn + fn and the number of windows the run scored.
C7_SampleSizeIsWhatWasScored ==
    /\ accuracy_cache.total_events_tested =
          accuracy_cache.true_positives + accuracy_cache.false_positives
          + accuracy_cache.true_negatives + accuracy_cache.false_negatives
    /\ accuracy_cache.note = ValidatedNote =>
          accuracy_cache.total_events_tested = LenYTrue(ValidationSample(scorer))
    /\ accuracy_cache.note = FallbackNote =>
          accuracy_cache.total_events_tested = LenYTrue(FallbackSample(scorer))

\* C8 (as claimed): a read of /api/accuracy that finds the cached report
\* not fresh (marked stale, or older than the time-to-live) fires a refresh
\* trigger, which starts a validation run when the scheduler is IDLE.  A
\* trigger fired while RUNNING changes nothing, so the claim is stated for
\* the reads that find the scheduler IDLE: such a read goes on to the
\* launch, and the launch goes on to start the thread.
C8_StaleReadTriggersRefresh ==
    [][ (handler = "get_accuracy" /\ ~validation_running) =>
          /\ (pc = "read_time_check" /\ marked_stale /\ pc' # pc) =>
                pc' \in {"read_age", "launch_check"}
          /\ (pc = "read_age" /\ IsStale(accuracy_cache_time, now) /\ pc' # pc) =>
                pc' = "launch_check"
          /\ (pc = "launch_check" /\ pc' # pc) => pc' = "launch_set" ]_vars

\* C9 (as claimed): the cached report and its time are written by worker
\* threads only.
C9_SingleWriter ==
    [][ (accuracy_cache' # accuracy_cache
         \/ accuracy_cache_time' # accuracy_cache_time)
            => \E w \in Workers : wpc'[w] # wpc[w] ]_vars

(***************************************************************************)
(* DSCOVRDataLoader.get_realtime_data (lines 113-184), called on the event *)
(* loop by /api/data/realtime, /api/conditions and /api/predict: one call  *)
(* at a time, the clock moving while it waits for the two fetches.         *)
(***************************************************************************)
\* what the provider can answer to a fetch: nothing (an error, a status
\* that is not ok), or a table
PlasmaResponses ==
    { NoData,
      << [t |-> 2, c |-> [density |-> Val(4), speed |-> Val(400), temperature |-> RawBad]],
         [t |-> 1, c |-> [density |-> Val(5), speed |-> RawNull, temperature |-> Val(10)]] >>,
      << [t |-> 2, c |-> [density |-> Val(6), speed |-> Val(500), temperature |-> Val(20)]] >> }

MagResponses ==
    { NoData,
      << [t |-> 2, c |-> [bz_gsm |-> Val(-3), bt |-> Val(0)]],
         [t |-> 3, c |-> [bz_gsm |-> RawNull, bt |-> Val(2)]] >> }

\* self.cache_ttl = timedelta(minutes=5), in seconds
cache_ttl == 300

\* a loader constructed with cache_enabled=False
CacheDisabled == FALSE

\* self.cache_enabled, as DSCOVRDataLoader() sets it
cache_enabled == TRUE

\* clock advances in one behaviour of the telemetry cache
MaxTelemetryTicks == 3

\* Half a time-to-live passes.
TelemetryTick ==
    /\ now < MaxTelemetryTicks * (cache_ttl \div 2)
    /\ now' = now + (cache_ttl \div 2)
    /\ UNCHANGED <<scheduler_vars, callers_vars, window_vars, function_vars>>
    /\ UNCHANGED <<telemetry_vars, callers_vars, window_vars, function_vars>>

\* the caller enters get_realtime_data(days)
BeginGetRealtimeData ==
    /\ tpc = "idle"
    /\ \E days \in Days : tkey' = days
    /\ tpc' = "cache_check"
    /\ tprev' = IF tdone = NoCall THEN tprev
                ELSE [tprev EXCEPT ![tdone.key] =
                        [value |-> tdone.value, at |-> tdone.at, loaded |-> tdone.loaded]]
    /\ tdone' = NoCall
    /\ UNCHANGED <<scheduler_vars, callers_vars, window_vars, function_vars>>
    /\ UNCHANGED <<cache, cache_timestamp, plasma_raw, mag_raw, checked_at, now>>

\* IsFresh with a test that no stored time passes
NeverFresh(stamp, clock) == FALSE

\* line 129: datetime.now() - self._cache_timestamp[cache_key] < self.cache_ttl
IsFresh(stamp, clock) == clock - stamp < cache_ttl

\* lines 128-130
CacheCheck ==
    /\ tpc = "cache_check"
    /\ checked_at' = now
    /\ IF cache_enabled /\ cache[tkey] # NoFrame /\ IsFresh(cache_timestamp[tkey], now)
       THEN /\ tdone' = [key |-> tkey, value |-> cache[tkey], at |-> now,
                         loaded |-> FALSE, checked_at |-> now]
            /\ tpc' = "idle"
       ELSE /\ tpc' = "fetch_plasma"
            /\ UNCHANGED tdone
    /\ UNCHANGED <<scheduler_vars, callers_vars, window_vars, function_vars>>
    /\ UNCHANGED <<cache, cache_timestamp, tkey, plasma_raw, mag_raw, tprev, now>>

\* lines 134 / 137: plasma_raw = self._fetch_json(...)
FetchPlasma ==
    /\ tpc = "fetch_plasma"
    /\ plasma_raw' \in PlasmaResponses
    /\ tpc' = "fetch_mag"
    /\ UNCHANGED <<scheduler_vars, callers_vars, window_vars, function_vars>>
    /\ UNCHANGED <<cache, cache_timestamp, tkey, mag_raw, checked_at, tdone, tprev, now>>

\* lines 135 / 138: mag_raw = self._fetch_json(...)
FetchMag ==
    /\ tpc = "fetch_mag"
    /\ mag_raw' \in MagResponses
    /\ tpc' = "combine"
    /\ UNCHANGED <<scheduler_vars, callers_vars, window_vars, function_vars>>
    /\ UNCHANGED <<cache, cache_timestamp, tkey, plasma_raw, checked_at, tdone, tprev, now>>

\* lines 140-184: both frames empty: return pd.DataFrame() (lines 143-144);
\* otherwise build the frame, store it with the time and return it
CombineAndStore ==
    /\ tpc = "combine"
    /\ LET plasma_df == PlasmaFrame(plasma_raw)
           mag_df == MagFrame(mag_raw)
       IN  IF IsEmpty(plasma_df) /\ IsEmpty(mag_df)
           THEN /\ tdone' = [key |-> tkey, value |-> EmptyFrame, at |-> now,
                             loaded |-> TRUE, checked_at |-> checked_at]
                /\ UNCHANGED <<cache, cache_timestamp>>
           ELSE /\ tdone' = [key |-> tkey, value |-> Combined(plasma_df, mag_df),
                             at |-> now, loaded |-> TRUE, checked_at |-> checked_at]
                /\ IF cache_enabled
                   THEN /\ cache' = [cache EXCEPT ![tkey] = Combined(plasma_df, mag_df)]
                        /\ cache_timestamp' = [cache_timestamp EXCEPT ![tkey] = now]
                   ELSE UNCHANGED <<cache, cache_timestamp>>
    \* the call returns: its locals are gone
    /\ plasma_raw' = NoData
    /\ mag_raw' = NoData
    /\ tpc' = "idle"
    /\ UNCHANGED <<scheduler_vars, callers_vars, window_vars, function_vars>>
    /\ UNCHANGED <<tkey, checked_at, tprev, now>>

TelemetryNext ==
    \/ TelemetryTick
    \/ BeginGetRealtimeData
    \/ CacheCheck
    \/ FetchPlasma
    \/ FetchMag
    \/ CombineAndStore

SpecTelemetry == Init /\ [][TelemetryNext]_vars

(***************************************************************************)
(* Properties of the telemetry cache.                                      *)
(***************************************************************************)
\* the call that has just returned came within the time-to-live of a call
\* for the same key that went to the provider
SecondCallWithinTTL ==
    /\ tdone # NoCall
    /\ tprev[tdone.key] # NoCall
    /\ tprev[tdone.key].loaded
    /\ tdone.checked_at - tprev[tdone.key].at < cache_ttl

MissOrStale ==
    cache[tkey] = NoFrame \/ ~IsFresh(cache_timestamp[tkey], now)

C13_UnavailableServesLastKnown ==
    [][ (/\ tpc = "combine"
         /\ plasma_raw = NoData
         /\ mag_raw = NoData
         /\ cache[tkey] # NoFrame
         /\ tpc' = "idle") =>
            /\ tdone'.value = cache[tkey]
            /\ cache'[tkey] = cache[tkey] ]_vars

(***************************************************************************)
(* get_realtime_data (lines 113-184) entered by more than one thread.  The *)
(* loader holds no lock and no table of loads in flight (__init__, lines   *)
(* 55-59): its only shared state is _cache and _cache_timestamp.  The      *)
(* handlers of server.py are coroutines of one event loop and _fetch_json  *)
(* blocks it, so they enter one at a time (SpecTelemetry); the callers     *)
(* here are the threads of a host that does not do so, each at its own     *)
(* statement with its own locals.                                          *)
(***************************************************************************)
CallerBegin(c) ==
    /\ cpc[c] = "idle"
    /\ \E days \in Days : ckey' = [ckey EXCEPT ![c] = days]
    /\ cpc' = [cpc EXCEPT ![c] = "cache_check"]
    /\ UNCHANGED <<cplasma, cmag, cache, cache_timestamp, now>>
    /\ UNCHANGED <<tpc, tkey, plasma_raw, mag_raw, checked_at, tdone, tprev>>
    /\ UNCHANGED <<scheduler_vars, window_vars, function_vars>>

\* lines 128-130
CallerCacheCheck(c) ==
    /\ cpc[c] = "cache_check"
    /\ IF /\ cache_enabled
          /\ cache[ckey[c]] # NoFrame
          /\ IsFresh(cache_timestamp[ckey[c]], now)
       THEN \* return self._cache[cache_key]: the call is over
            /\ cpc' = [cpc EXCEPT ![c] = "idle"]
            /\ ckey' = [ckey EXCEPT ![c] = 1]
       ELSE /\ cpc' = [cpc EXCEPT ![c] = "fetch_plasma"]
            /\ UNCHANGED ckey
    /\ UNCHANGED <<cplasma, cmag, cache, cache_timestamp, now>>
    /\ UNCHANGED <<tpc, tkey, plasma_raw, mag_raw, checked_at, tdone, tprev>>
    /\ UNCHANGED <<scheduler_vars, window_vars, function_vars>>

\* lines 134 / 137
CallerFetchPlasma(c) ==
    /\ cpc[c] = "fetch_plasma"
    /\ \E raw \in PlasmaResponses : cplasma' = [cplasma EXCEPT ![c] = raw]
    /\ cpc' = [cpc EXCEPT ![c] = "fetch_mag"]
    /\ UNCHANGED <<ckey, cmag, cache, cache_timestamp, now>>
    /\ UNCHANGED <<tpc, tkey, plasma_raw, mag_raw, checked_at, tdone, tprev>>
    /\ UNCHANGED <<scheduler_vars, window_vars, function_vars>>

\* lines 135 / 138
CallerFetchMag(c) ==
    /\ cpc[c] = "fetch_mag"
    /\ \E raw \in MagResponses : cmag' = [cmag EXCEPT ![c] = raw]
    /\ cpc' = [cpc EXCEPT ![c] = "combine"]
    /\ UNCHANGED <<ckey, cplasma, cache, cache_timestamp, now>>
    /\ UNCHANGED <<tpc, tkey, plasma_raw, mag_raw, checked_at, tdone, tprev>>
    /\ UNCHANGED <<scheduler_vars, window_vars, function_vars>>

\* lines 140-184
CallerCombineAndStore(c) ==
    /\ cpc[c] = "combine"
    /\ LET plasma_df == PlasmaFrame(cplasma[c])
           mag_df == MagFrame(cmag[c])
       IN  IF (IsEmpty(plasma_df) /\ IsEmpty(mag_df)) \/ ~cache_enabled
           THEN UNCHANGED <<cache, cache_timestamp>>
           ELSE /\ cache' = [cache EXCEPT ![ckey[c]] = Combined(plasma_df, mag_df)]
                /\ cache_timestamp' = [cache_timestamp EXCEPT ![ckey[c]] = now]
    \* the call returns: its locals are gone
    /\ cplasma' = [cplasma EXCEPT ![c] = NoData]
    /\ cmag' = [cmag EXCEPT ![c] = NoData]
    /\ ckey' = [ckey EXCEPT ![c] = 1]
    /\ cpc' = [cpc EXCEPT ![c] = "idle"]
    /\ UNCHANGED now
    /\ UNCHANGED <<tpc, tkey, plasma_raw, mag_raw, checked_at, tdone, tprev>>
    /\ UNCHANGED <<scheduler_vars, window_vars, function_vars>>

\* Half a time-to-live passes while threads are in the loader.
CallersTick ==
    /\ now < MaxTelemetryTicks * (cache_ttl \div 2)
    /\ now' = now + (cache_ttl \div 2)
    /\ UNCHANGED <<scheduler_vars, telemetry_vars, callers_vars, window_vars, function_vars>>

CallersNext ==
    \/ CallersTick
    \/ \E c \in Callers :
          \/ CallerBegin(c)
          \/ CallerCacheCheck(c)
          \/ CallerFetchPlasma(c)
          \/ CallerFetchMag(c)
          \/ CallerCombineAndStore(c)

SpecCallers == Init /\ [][CallersNext]_vars

\* the callers that are loading `days` from the provider: past the cache
\* check and not yet returned
Loading(days) ==
    {c \in Callers : ckey[c] = days /\ cpc[c] \in {"fetch_plasma", "fetch_mag", "combine"}}

\* C12 (as claimed): callers that ask for one key while a load for it is in
\* flight do not go to the provider themselves: at most one load per key
\* is in flight at any time.
C12_OneLoadInFlightPerKey ==
    \A days \in Days : Cardinality(Loading(days)) <= 1

(***************************************************************************)
(* DSCOVRDataLoader.prepare_model_input (lines 186-249) and                *)
(* CMEPredictor.predict_realtime (lines 112-167).  A window is a sequence  *)
(* of rows, each a function from the six features to a cell: the time      *)
(* index is dropped by the ignore_index of line 210.                       *)
(***************************************************************************)
\* line 213
features == <<"speed", "density", "temperature", "bz", "bt", "beta">>
FeatureSet == {features[i] : i \in 1..Len(features)}

\* line 203: df.tail(window_minutes), the cells of each row
TailRows(df, n) ==
    LET first == IF Len(df.rows) > n THEN Len(df.rows) - n + 1 ELSE 1
    IN  [i \in 1..(Len(df.rows) - first + 1) |-> df.rows[first + i - 1].c]

\* no row is added
NoPadding(n, len) == 0

\* line 207
PadCount(n, len) == n - len

\* the earliest row of the window
EarliestRow(df_window) == df_window[1]

\* line 208: last_row = df_window.iloc[-1:]
LastRow(df_window) == df_window[Len(df_window)]

\* lines 205-210
Padded(df_window, n) ==
    IF Len(df_window) < n
    THEN [i \in 1..PadCount(n, Len(df_window)) |-> LastRow(df_window)] \o df_window
    ELSE df_window

Reverse(xs) == Strict([i \in 1..Len(xs) |-> xs[Len(xs) + 1 - i]])

\* Series.ffill() and Series.bfill(), without limit
FFillAll(xs) == FFillColumn(xs, Len(xs))
BFillAll(xs) == Reverse(FFillColumn(Reverse(xs), Len(xs)))

\* line 216: df_window[features].ffill().bfill()
FillWindow(rows) ==
    LET filled == Strict([k \in FeatureSet |->
                            BFillAll(FFillAll([i \in 1..Len(rows) |-> rows[i][k]]))])
    IN  Strict([i \in 1..Len(rows) |-> Strict([k \in FeatureSet |-> filled[k][i]])])

\* lines 219-226: (mean, std) of each feature
norm_params ==
    [speed |-> <<400, 100>>, density |-> <<5, 5>>, temperature |-> <<100000, 50000>>,
     bz |-> <<0, 5>>, bt |-> <<5, 3>>, beta |-> <<1, 1>>]

\* line 233: (x - mean) / std as a rational; NaN stays NaN
Normalized(x, feat) ==
    IF x = NaN THEN NaN
    ELSE <<x[1] - norm_params[feat][1] * x[2], x[2] * norm_params[feat][2]>>

\* lines 228-236
NormalizeWindow(rows) ==
    Strict([i \in 1..Len(rows) |-> Strict([k \in FeatureSet |-> Normalized(rows[i][k], k)])])

\* prepare_model_input(window_minutes) on the frame get_realtime_data gave:
\* what it raises, or the window after each of its steps
PrepareModelInput(df, n) ==
    IF IsEmpty(df)
    THEN \* lines 199-200
         [raised |-> "ValueError", message |-> "No data available from DSCOVR"]
    ELSE IF ~(FeatureSet \subseteq df.cols)
    THEN \* line 216 on a frame without one of the columns
         [raised |-> "KeyError", message |-> "not in index"]
    ELSE LET padded == Padded(TailRows(df, n), n)
             filled == FillWindow(padded)
         IN  [raised |-> "none",
              padded |-> padded,
              filled |-> filled,
              input_array |-> NormalizeWindow(filled),
              data_points |-> Len(filled)]

\* a predict_realtime that does not look at what prepare_model_input raised
PredictWithoutWindow(result, scored) ==
    [status |-> "success", data_points |-> 0]

\* predict_realtime, lines 119-167: `scored` is whether the model call and
\* what follows it went through
PredictRealtime(result, scored) ==
    IF result.raised # "none"
    THEN [status |-> "error", error |-> result.message]
    ELSE IF ~scored
    THEN [status |-> "error", error |-> "inference failed"]
    ELSE [status |-> "success", data_points |-> result.data_points]

(***************************************************************************)
(* What the provider answers to the two fetches of one prediction: one-    *)
(* minute tables of up to MaxRows rows.  The plasma table may lack the     *)
(* rows of a gap and may carry a temperature that is no number; the field  *)
(* magnitude of the mag table may be zero from some minute on.             *)
(***************************************************************************)
\* rows of the longest table
MaxRows == 8

\* rows a gap of the plasma table may lack
GapLengths == {0, 5, 6}

PlasmaRow(t, bad) ==
    [t |-> t,
     c |-> [density |-> Val(5), speed |-> Val(400 + t),
            temperature |-> IF bad THEN RawBad ELSE Val(10)]]

MagRow(t, zero_from) ==
    [t |-> t,
     c |-> [bz_gsm |-> Val(0 - t), bt |-> IF t >= zero_from THEN Val(0) ELSE Val(2)]]

\* the minutes of a table of n rows without the `len` minutes from `from`
MinutesWithoutGap(n, from, len) == (1..n) \ (from..(from + len - 1))

PlasmaTables ==
    {NoData} \cup
    { SortByT({PlasmaRow(t, bad) : t \in MinutesWithoutGap(n, from, len)}) :
        n \in 1..MaxRows, from \in 2..MaxRows, len \in GapLengths, bad \in BOOLEAN }

MagTables ==
    {NoData} \cup
    { SortByT({MagRow(t, zero_from) : t \in 1..n}) :
        n \in 1..MaxRows, zero_from \in {1, 3, MaxRows + 1} }

\* window_minutes: 60 at every call site; 4 is a window shorter than a table
WindowSizes == {4, 60}

\* lines 140-184 on a cache miss: what get_realtime_data returns
Loaded(raw_plasma, raw_mag) ==
    IF IsEmpty(PlasmaFrame(raw_plasma)) /\ IsEmpty(MagFrame(raw_mag))
    THEN EmptyFrame
    ELSE Combined(PlasmaFrame(raw_plasma), MagFrame(raw_mag))

\* the frame of lines 146-174, before the forward fill of line 177
Unfilled(raw_plasma, raw_mag) ==
    Selected(WithBeta(Merge(PlasmaFrame(raw_plasma), MagFrame(raw_mag))))

\* predict_realtime is entered and prepare_model_input gets its frame
\* (line 197)
BeginPredictRealtime ==
    /\ apc = "idle"
    /\ \E raw_plasma \in PlasmaTables, raw_mag \in MagTables, n \in WindowSizes :
          /\ in_plasma' = raw_plasma
          /\ in_mag' = raw_mag
          /\ window_minutes' = n
          /\ series' = Loaded(raw_plasma, raw_mag)
    /\ apc' = "prepare"
    /\ UNCHANGED <<assembled, prediction, now>>
    /\ UNCHANGED <<scheduler_vars, telemetry_vars, callers_vars, function_vars>>

\* lines 199-249
PrepareModelInputReturns ==
    /\ apc = "prepare"
    /\ assembled' = PrepareModelInput(series, window_minutes)
    /\ apc' = "infer"
    /\ UNCHANGED <<in_plasma, in_mag, window_minutes, series, prediction, now>>
    /\ UNCHANGED <<scheduler_vars, telemetry_vars, callers_vars, function_vars>>

\* predict_realtime returns, lines 123-167
PredictRealtimeReturns ==
    /\ apc = "infer"
    /\ \E scored \in BOOLEAN : prediction' = PredictRealtime(assembled, scored)
    /\ apc' = "respond"
    /\ UNCHANGED <<in_plasma, in_mag, window_minutes, series, assembled, now>>
    /\ UNCHANGED <<scheduler_vars, telemetry_vars, callers_vars, function_vars>>

\* server.py line 96: the result is sent and the call's values are gone
Respond ==
    /\ apc = "respond"
    /\ apc' = "idle"
    /\ in_plasma' = NoData
    /\ in_mag' = NoData
    /\ window_minutes' = 60
    /\ series' = EmptyFrame
    /\ assembled' = NoResult
    /\ prediction' = NoResult
    /\ UNCHANGED now
    /\ UNCHANGED <<scheduler_vars, telemetry_vars, callers_vars, function_vars>>

WindowNext ==
    \/ BeginPredictRealtime
    \/ PrepareModelInputReturns
    \/ PredictRealtimeReturns
    \/ Respond

SpecWindow == Init /\ [][WindowNext]_vars

(***************************************************************************)
(* Properties of window assembly.                                          *)
(***************************************************************************)
\* prepare_model_input has returned or raised
Assembled == apc \in {"infer", "respond"}

\* the rows of the frame that go into the window
WindowRows == TailRows(series, window_minutes)

\* C14: on a frame without rows prepare_model_input raises its "No data
\* available" error and builds no window, and predict_realtime answers
\* with status "error" and that message, with no prediction in it.
C14_EmptySeriesIsInsufficientData ==
    (Assembled /\ Len(series.rows) = 0) =>
        /\ assembled = [raised |-> "ValueError",
                        message |-> "No data available from DSCOVR"]
        /\ apc = "respond" =>
              prediction = [status |-> "error",
                            error |-> "No data available from DSCOVR"]

\* C14 witness: both endpoints gave nothing and the request got its answer.
C14_Witness ==
    /\ apc = "respond"
    /\ in_plasma = NoData
    /\ in_mag = NoData
    /\ Len(series.rows) = 0
    /\ prediction.status = "error"

\* C15 (as claimed): a frame of k rows, 1 <= k < window_minutes, gives a
\* window of window_minutes rows: copies of the earliest row, then the k
\* rows in their order.
C15_PadsWithEarliestRow ==
    (Assembled /\ assembled.raised = "none" /\ Len(series.rows) < window_minutes) =>
        assembled.padded =
            [i \in 1..(window_minutes - Len(series.rows)) |-> EarliestRow(WindowRows)]
            \o WindowRows

\* C15 (amended): a frame of k rows, 1 <= k < window_minutes, gives a
\* window of window_minutes rows: window_minutes - k copies of the latest
\* row, then the k rows in their order.
C15_PadsWithLatestRow ==
    (Assembled /\ assembled.raised = "none" /\ Len(series.rows) < window_minutes) =>
        /\ Len(assembled.padded) = window_minutes
        /\ assembled.padded =
              [i \in 1..(window_minutes - Len(series.rows)) |->
                  series.rows[Len(series.rows)].c]
              \o [i \in 1..Len(series.rows) |-> series.rows[i].c]

\* C15 witness: a window was padded from a frame of at least two rows whose
\* earliest and latest rows differ.
C15_Witness ==
    /\ Assembled
    /\ assembled.raised = "none"
    /\ Len(series.rows) >= 2
    /\ Len(series.rows) < window_minutes
    /\ series.rows[1].c # series.rows[Len(series.rows)].c
    /\ Len(assembled.padded) = window_minutes

\* C16: a frame of one row gives a window, before normalization, of
\* window_minutes rows that all equal that row.
C16_SingleRowFillsTheWindow ==
    (Assembled /\ assembled.raised = "none" /\ Len(series.rows) = 1) =>
        /\ Len(assembled.filled) = window_minutes
        /\ \A i \in 1..window_minutes : assembled.filled[i] = series.rows[1].c

\* C16 witness: a window of 60 rows was built from a frame of one row.
C16_Witness ==
    /\ Assembled
    /\ assembled.raised = "none"
    /\ Len(series.rows) = 1
    /\ window_minutes = 60
    /\ Len(assembled.filled) = 60

\* C17 (as claimed): every window prepare_model_input returns has no
\* missing cell, before and after normalization.
C17_NoMissingCellInWindow ==
    (Assembled /\ assembled.raised = "none") =>
        \A i \in 1..Len(assembled.filled), k \in FeatureSet :
            /\ assembled.filled[i][k] # NaN
            /\ assembled.input_array[i][k] # NaN

\* channel k of the fetched data has a gap longer than the limit that ends
\* at row i: a valid value, then more than five rows without one
GapBeyondLimit(k, i) ==
    LET raw == Unfilled(in_plasma, in_mag)
    IN  /\ i > 6
        /\ i <= Len(raw.rows)
        /\ k \in raw.cols
        /\ raw.rows[i - 6].c[k] # NaN
        /\ \A j \in (i - 5)..i : raw.rows[j].c[k] = NaN

\* the row of the window that holds row i of the frame
WindowIndex(i) ==
    IF Len(series.rows) < window_minutes
    THEN window_minutes - Len(series.rows) + i
    ELSE i - (Len(series.rows) - window_minutes)

Minutes(raw) == IF raw = NoData THEN {} ELSE {raw[i].t : i \in 1..Len(raw)}

\* the fixture of the end-to-end case: mag has every minute with a field
\* that is not zero, plasma has valid values and lacks five minutes in a
\* row after its first
FiveMinuteGapFixture ==
    /\ in_plasma # NoData
    /\ in_mag # NoData
    /\ \A i \in 1..Len(in_mag) : in_mag[i].c.bt \notin {Val(0), RawNull, RawBad}
    /\ \A i \in 1..Len(in_plasma) : in_plasma[i].c.temperature # RawBad
    /\ 1 \in Minutes(in_plasma)
    /\ Minutes(in_plasma) \subseteq Minutes(in_mag)
    /\ \E from \in Minutes(in_mag) :
          Minutes(in_mag) \ Minutes(in_plasma) = from..(from + 4)

\* C19: in the end-to-end case the frame get_realtime_data returns has no
\* null cell (each gap row carries the plasma values of the row before the
\* gap) and the window has window_minutes rows without a null cell.
C19_FiveMinuteGapIsFilled ==
    (Assembled /\ FiveMinuteGapFixture) =>
        /\ \A i \in 1..Len(series.rows), k \in FeatureSet : series.rows[i].c[k] # NaN
        /\ \A i \in 2..Len(series.rows) :
              series.rows[i].t \notin Minutes(in_plasma) =>
                 \A k \in {"speed", "density", "temperature", "beta"} :
                    series.rows[i].c[k] = series.rows[i - 1].c[k]
        /\ assembled.raised = "none"
        /\ Len(assembled.filled) = window_minutes
        /\ \A i \in 1..window_minutes, k \in FeatureSet :
              /\ assembled.filled[i][k] # NaN
              /\ assembled.input_array[i][k] # NaN

\* C19 witness: the case with the gap in the middle of the table and a
\* window of 60 rows.
C19_Witness ==
    /\ Assembled
    /\ FiveMinuteGapFixture
    /\ window_minutes = 60
    /\ Minutes(in_plasma) = {1, 7, 8}
    /\ assembled.raised = "none"

\* C20 (as claimed): in the frame get_realtime_data returns, a row whose bt
\* is zero or whose density or temperature is missing has a null beta.
C20_BetaNullWhereUndefined ==
    (apc # "idle" /\ {"density", "temperature", "bt", "beta"} \subseteq series.cols) =>
        \A i \in 1..Len(series.rows) :
            (\/ series.rows[i].c["bt"] = Val(0)
             \/ series.rows[i].c["density"] = NaN
             \/ series.rows[i].c["temperature"] = NaN)
                => series.rows[i].c["beta"] = NaN

(***************************************************************************)
(* CMEPredictor's functions without state: _get_alert_level (lines         *)
(* 229-239), _format_eta (241-249), and the metrics block with             *)
(* _compute_auc (487-499, 541-567).  One call at a time: a function is     *)
(* entered with an argument, its result is kept, and the call returns.     *)
(* Probabilities are in ten-thousandths here, hours in sixteenths (which   *)
(* a float holds exactly).                                                 *)
(***************************************************************************)
\* lines 77-82, in ten-thousandths
thresholds == [low |-> 3000, moderate |-> 5000, high |-> 7000, extreme |-> 9000]

\* _get_alert_level with tests that leave the boundary to the lower level
GetAlertLevelAbove(p) ==
    IF p > thresholds.extreme THEN "EXTREME"
    ELSE IF p > thresholds.high THEN "HIGH"
    ELSE IF p > thresholds.moderate THEN "MODERATE"
    ELSE IF p > thresholds.low THEN "LOW"
    ELSE "NONE"

\* lines 231-239
GetAlertLevel(p) ==
    IF p >= thresholds.extreme THEN "EXTREME"
    ELSE IF p >= thresholds.high THEN "HIGH"
    ELSE IF p >= thresholds.moderate THEN "MODERATE"
    ELSE IF p >= thresholds.low THEN "LOW"
    ELSE "NONE"

\* f"{num/den:.1f}" for num >= 0, den > 0, as its tenths: the nearest, and
\* of two that are equally near the even one
Fixed1(num, den) ==
    LET q == (10 * num) \div den
        r == (10 * num) % den
    IN  IF 2 * r > den \/ (2 * r = den /\ q % 2 = 1) THEN q + 1 ELSE q

\* one decimal with a half going up
Fixed1HalfUp(num, den) ==
    LET q == (10 * num) \div den
        r == (10 * num) % den
    IN  IF 2 * r >= den THEN q + 1 ELSE q

\* the text "<whole>.<tenth> <unit>"
OneDecimal(tenths, unit) == [whole |-> tenths \div 10, tenth |-> tenths % 10, unit |-> unit]

\* the text "<whole> <unit>"
Whole(n, unit) == [whole |-> n, unit |-> unit]

\* _format_eta with one decimal rounded half up
FormatEtaHalfUp(h) ==
    IF h < 16 THEN Whole((h * 60) \div 16, "minutes")
    ELSE IF h < 24 * 16 THEN OneDecimal(Fixed1HalfUp(h, 16), "hours")
    ELSE OneDecimal(Fixed1HalfUp(h, 16 * 24), "days")

\* lines 243-249, h in sixteenths of an hour
FormatEta(h) ==
    IF h < 16 THEN Whole((h * 60) \div 16, "minutes")
    ELSE IF h < 24 * 16 THEN OneDecimal(Fixed1(h, 16), "hours")
    ELSE OneDecimal(Fixed1(h, 16 * 24), "days")

\* the probabilities a call may get: 0 to 1 in steps of 0.0001
Probabilities == 0..10000

\* the hours a call may get: model.py line 256 scales the output to 72 hours
MaxHours == 72
HourValues == 0..(MaxHours * 16)

\* line 136: alert_level = self._get_alert_level(cme_prob)
CallGetAlertLevel ==
    /\ fn = "none"
    /\ fn' = "get_alert_level"
    /\ \E p \in Probabilities :
          /\ probability' = p
          /\ alert_level' = GetAlertLevel(p)
    /\ UNCHANGED <<hours, eta, y_labelled, auc, metrics, now>>
    /\ UNCHANGED <<scheduler_vars, telemetry_vars, callers_vars, window_vars>>

\* line 148: 'arrival_time_eta': self._format_eta(arrival_hours)
CallFormatEta ==
    /\ fn = "none"
    /\ fn' = "format_eta"
    /\ \E h \in HourValues :
          /\ hours' = h
          /\ eta' = FormatEta(h)
    /\ UNCHANGED <<probability, alert_level, y_labelled, auc, metrics, now>>
    /\ UNCHANGED <<scheduler_vars, telemetry_vars, callers_vars, window_vars>>

\* the caller has the result and the call is over
FunctionReturns ==
    /\ fn # "none"
    /\ fn' = "none"
    /\ probability' = NoResult
    /\ alert_level' = NoResult
    /\ hours' = NoResult
    /\ eta' = NoResult
    /\ y_labelled' = NoResult
    /\ auc' = NoResult
    /\ metrics' = NoResult
    /\ UNCHANGED now
    /\ UNCHANGED <<scheduler_vars, telemetry_vars, callers_vars, window_vars>>

\* groups of windows that are labelled and scored alike
MaxGroups == 3
Groups == 1..MaxGroups

\* the scores of a group: below, at and above the 0.5 of line 487
GroupScores == {49, 50, 90}

\* the windows of a group: none, one, many
GroupCounts == {0, 1, 249}

\* y_true and probs of lines 483-486
LabelledSamples ==
    [Groups -> [label : {0, 1}, score : GroupScores, count : GroupCounts]]

\* lines 487-499: the confusion matrix and what is derived from it
MetricsBlock(sample) ==
    LET m == Confusion(sample)
    IN  [tp |-> m.tp, fp |-> m.fp, tn |-> m.tn, fn |-> m.fn,
         accuracy |-> Accuracy(m), precision |-> Precision(m),
         recall |-> Recall(m), f1_score |-> F1(m), auc_roc |-> AucRoc(sample)]

\* lines 487-499 on one labelled and scored sample
CallMetrics ==
    /\ fn = "none"
    /\ fn' = "metrics"
    /\ \E sample \in LabelledSamples :
          /\ y_labelled' = sample
          /\ auc' = ComputeAuc(sample)
          /\ metrics' = MetricsBlock(sample)
    /\ UNCHANGED <<probability, alert_level, hours, eta, now>>
    /\ UNCHANGED <<scheduler_vars, telemetry_vars, callers_vars, window_vars>>

FunctionsNext ==
    \/ CallGetAlertLevel
    \/ CallFormatEta
    \/ CallMetrics
    \/ FunctionReturns

SpecFunctions == Init /\ [][FunctionsNext]_vars

\* C21 (as claimed): when exactly one of the two sources is unavailable,
\* get_realtime_data returns a frame with the six channels, those of the
\* missing source null, and the prediction over it has its window and is
\* no error.
C21_OneSourceMissingIsAbsorbed ==
    (Assembled /\ ((in_plasma = NoData) # (in_mag = NoData))) =>
        /\ Len(series.rows) > 0
        /\ FeatureSet \subseteq series.cols
        /\ assembled.raised = "none"

\* C22: _get_alert_level is defined for every probability, and each bound
\* belongs to the level above it: EXTREME from 0.90, HIGH from 0.70 to
\* below 0.90, MODERATE from 0.50 to below 0.70, LOW from 0.30 to below
\* 0.50, NONE below 0.30; 0.9 is EXTREME, 0.8999 HIGH, 0.5 MODERATE and
\* 0.29 NONE.
C22_ClassifyClosedLowerBounds ==
    fn = "get_alert_level" =>
        /\ alert_level \in {"EXTREME", "HIGH", "MODERATE", "LOW", "NONE"}
        /\ alert_level = "EXTREME" <=> probability >= 9000
        /\ alert_level = "HIGH" <=> (7000 <= probability /\ probability < 9000)
        /\ alert_level = "MODERATE" <=> (5000 <= probability /\ probability < 7000)
        /\ alert_level = "LOW" <=> (3000 <= probability /\ probability < 5000)
        /\ alert_level = "NONE" <=> probability < 3000
        /\ probability = 9000 => alert_level = "EXTREME"
        /\ probability = 8999 => alert_level = "HIGH"
        /\ probability = 5000 => alert_level = "MODERATE"
        /\ probability = 2900 => alert_level = "NONE"

\* C22 witness: the call with the probability 0.9, a bound, gave EXTREME.
C22_Witness ==
    /\ fn = "get_alert_level"
    /\ probability = 9000
    /\ alert_level = "EXTREME"

\* the result has the unit of the range of its hours
EtaUnitByRange ==
    /\ hours < 16 => (eta.unit = "minutes" /\ DOMAIN eta = {"whole", "unit"})
    /\ (16 <= hours /\ hours < 24 * 16) => eta.unit = "hours"
    /\ hours >= 24 * 16 => eta.unit = "days"
    /\ eta.unit = "minutes" =>
          \* floored: whole <= 60 hours < whole + 1
          /\ eta.whole * 16 <= 60 * hours
          /\ 60 * hours < (eta.whole + 1) * 16

\* the sixteenths of an hour in one unit of the result
EtaUnitSize == IF eta.unit = "days" THEN 24 * 16 ELSE 16

\* the tenths the result shows
EtaTenths == 10 * eta.whole + eta.tenth

\* C23 (as claimed): _format_eta picks the unit by range, floors the
\* minutes, shows hours and days to one decimal, and gives "30 minutes"
\* for 0.5, "5.3 hours" for 5.25 and "2.0 days" for 48.
C23_FormatEtaAsClaimed ==
    fn = "format_eta" =>
        /\ EtaUnitByRange
        /\ hours = 8 => eta = Whole(30, "minutes")
        /\ hours = 84 => eta = OneDecimal(53, "hours")
        /\ hours = 48 * 16 => eta = OneDecimal(20, "days")

\* C23 (amended): _format_eta picks the unit by range, floors the minutes,
\* shows hours and days to the nearest tenth, of two tenths equally near
\* the even one, and gives "30 minutes" for 0.5, "5.2 hours" for 5.25 and
\* "2.0 days" for 48.
C23_FormatEtaTiesToEven ==
    fn = "format_eta" =>
        /\ EtaUnitByRange
        /\ eta.unit # "minutes" =>
              /\ eta.tenth \in 0..9
              \* nearest: |tenths / 10 - hours / size| <= 1 / 20
              /\ 2 * (EtaUnitSize * EtaTenths - 10 * hours) <= EtaUnitSize
              /\ 2 * (10 * hours - EtaUnitSize * EtaTenths) <= EtaUnitSize
              \* equally near: even
              /\ (2 * (10 * hours - EtaUnitSize * EtaTenths) \in {EtaUnitSize, 0 - EtaUnitSize})
                    => EtaTenths % 2 = 0
        /\ hours = 8 => eta = Whole(30, "minutes")
        /\ hours = 84 => eta = OneDecimal(52, "hours")
        /\ hours = 48 * 16 => eta = OneDecimal(20, "days")

\* C23 witness: the call with 5.25 hours, midway between two tenths, gave
\* "5.2 hours".
C23_Witness ==
    /\ fn = "format_eta"
    /\ hours = 84
    /\ eta = OneDecimal(52, "hours")

(***************************************************************************)
(* Properties of the metrics block.                                        *)
(***************************************************************************)
\* the windows of the sample with a label
Windows(label) ==
    SumOver({g \in Groups : y_labelled[g].label = label},
            [g \in Groups |-> y_labelled[g].count])

\* the groups of a label that have a window
GroupsOf(label) == {g \in Groups : y_labelled[g].label = label /\ y_labelled[g].count > 0}

\* C26: _compute_auc returns exactly 0.5 when the sample has no event
\* window or no quiet window, whatever the scores, the empty sample
\* included.
C26_AucHalfForOneLabel ==
    (fn = "metrics" /\ (Windows(1) = 0 \/ Windows(0) = 0)) =>
        /\ auc = <<1, 2>>
        /\ metrics.auc_roc = 500

\* C26 witness: a sample of quiet windows only, with two scores.
C26_Witness ==
    /\ fn = "metrics"
    /\ Windows(1) = 0
    /\ Cardinality({y_labelled[g].score : g \in GroupsOf(0)}) = 2
    /\ auc = <<1, 2>>

\* every event window scores above every quiet window, and there are both
Separable ==
    /\ GroupsOf(1) # {}
    /\ GroupsOf(0) # {}
    /\ \A g \in GroupsOf(1), h \in GroupsOf(0) : y_labelled[g].score > y_labelled[h].score

\* C27: _compute_auc returns 1.0 for a sample in which every event window
\* scores above every quiet window, scores repeated within a label
\* included.
C27_AucOneForSeparable ==
    (fn = "metrics" /\ Separable) =>
        /\ auc[2] > 0
        /\ auc[1] = auc[2]
        /\ metrics.auc_roc = 1000

\* C27 witness: a separable sample whose event windows share one score.
C27_Witness ==
    /\ fn = "metrics"
    /\ Separable
    /\ Cardinality(GroupsOf(1)) = 2
    /\ Cardinality({y_labelled[g].score : g \in GroupsOf(1)}) = 1
    /\ auc[1] = auc[2]

\* the confusion matrix counts the windows with score >= 0.5 as predicted
\* events, and accuracy, precision and recall have the floor 1 under them
ConfusionAndRatios ==
    LET n(label, above) ==
            SumOver({g \in Groups : /\ y_labelled[g].label = label
                                    /\ (y_labelled[g].score >= 50) = above},
                    [g \in Groups |-> y_labelled[g].count])
        total == Windows(1) + Windows(0)
    IN  /\ metrics.tp = n(1, TRUE)
        /\ metrics.fp = n(0, TRUE)
        /\ metrics.tn = n(0, FALSE)
        /\ metrics.fn = n(1, FALSE)
        /\ metrics.tp + metrics.fn = Windows(1)
        /\ metrics.fp + metrics.tn = Windows(0)
        /\ metrics.accuracy =
              RoundTo(100 * (metrics.tp + metrics.tn), IF total = 0 THEN 1 ELSE total, 1)
        /\ metrics.precision =
              RoundTo(100 * metrics.tp,
                      IF metrics.tp + metrics.fp = 0 THEN 1 ELSE metrics.tp + metrics.fp, 1)
        /\ metrics.recall =
              RoundTo(100 * metrics.tp, IF Windows(1) = 0 THEN 1 ELSE Windows(1), 1)
        /\ total = 0 => metrics.accuracy = 0
        /\ metrics.tp + metrics.fp = 0 => metrics.precision = 0
        /\ Windows(1) = 0 => metrics.recall = 0
        /\ metrics.tp = 0 => metrics.f1_score = 0

\* the denominators of precision and recall
PrecisionDen == IF metrics.tp + metrics.fp = 0 THEN 1 ELSE metrics.tp + metrics.fp
RecallDen == IF metrics.tp + metrics.fn = 0 THEN 1 ELSE metrics.tp + metrics.fn

\* precision + recall, in percent, is below 1
RatiosSumBelowOne ==
    100 * metrics.tp * (PrecisionDen + RecallDen) < PrecisionDen * RecallDen

\* C28 (as claimed): scores are thresholded at 0.5 into the confusion
\* matrix, and accuracy, precision, recall and F1 each have a denominator
\* floor of 1: F1 is 2 P R / max(P + R, 1).
C28_EveryDenominatorFloorOne ==
    fn = "metrics" =>
        /\ ConfusionAndRatios
        /\ metrics.f1_score =
              IF RatiosSumBelowOne
              THEN RoundTo(20000 * metrics.tp * metrics.tp, PrecisionDen * RecallDen, 1)
              ELSE RoundTo(200 * metrics.tp, PrecisionDen + RecallDen, 1)

\* C28 (amended): scores are thresholded at 0.5 into the confusion matrix
\* with tp + fn the event windows and fp + tn the quiet ones; accuracy,
\* precision and recall have a denominator floor of 1, and F1 is
\* 2 P R / max(P + R, 0.000001): the harmonic mean whenever P + R is not
\* zero, however small.  Each is 0 when its true denominator is zero.
C28_FloorOneButF1FloorMillionth ==
    fn = "metrics" =>
        /\ ConfusionAndRatios
        /\ metrics.f1_score =
              IF metrics.tp = 0 THEN 0
              ELSE RoundTo(200 * metrics.tp, PrecisionDen + RecallDen, 1)

\* C28 witness: one event window in 250 is found and one in 250 predicted
\* events is true, so precision + recall is 0.8 percent, and F1 is 0.4.
C28_Witness ==
    /\ fn = "metrics"
    /\ metrics.tp = 1
    /\ metrics.fp = 249
    /\ metrics.fn = 249
    /\ RatiosSumBelowOne
    /\ metrics.f1_score = 4

\* twice the pairs of an event and a quiet window with the event scored
\* higher, plus the pairs scored alike
PairwiseTwice ==
    SumOver(GroupsOf(1) \X GroupsOf(0),
            [pair \in Groups \X Groups |->
                y_labelled[pair[1]].count * y_labelled[pair[2]].count *
                (IF y_labelled[pair[1]].score > y_labelled[pair[2]].score THEN 2
                 ELSE IF y_labelled[pair[1]].score = y_labelled[pair[2]].score THEN 1
                 ELSE 0)])

\* C30: for a sample with an event and a quiet window, ties included, the
\* area _compute_auc sweeps equals (pairs with the event scored higher +
\* half the pairs scored alike) / (n_pos n_neg), and lies in [0, 1].
C30_SweepEqualsPairwiseStatistic ==
    (fn = "metrics" /\ Windows(1) > 0 /\ Windows(0) > 0) =>
        /\ auc[2] = 2 * Windows(1) * Windows(0)
        /\ auc[1] = PairwiseTwice
        /\ 0 <= auc[1]
        /\ auc[1] <= auc[2]

\* C30 witness: an event group and a quiet group share a score, and a
\* further group has another.
C30_Witness ==
    /\ fn = "metrics"
    /\ \E g \in GroupsOf(1), h \in GroupsOf(0) : y_labelled[g].score = y_labelled[h].score
    /\ Cardinality({y_labelled[g].score : g \in GroupsOf(1) \cup GroupsOf(0)}) >= 2
    /\ Cardinality(GroupsOf(1) \cup GroupsOf(0)) = 3
    /\ auc[1] = PairwiseTwice

(***************************************************************************)
(* Properties of the validation runs.                                      *)
(***************************************************************************)
\* max(20, floor(cap x weight / total weight)) of an era
Quota(era) ==
    LET share == (3000 * EraCount(era)) \div TotalCatalog
    IN  IF share < 20 THEN 20 ELSE share

\* the event windows of a validation run
QuotaTotal == Quota("carrington") + Quota("classic") + Quota("modern")

\* C24: a validation run scores max(20, floor(3000 x era count / catalog
\* total)) event windows of each era, at least 20 of each, and as many
\* quiet windows as event windows of all eras together.
C24_BalancedStratifiedSample ==
    \A w \in Workers :
        woutcome[w] = "validated" =>
            /\ \A e \in Eras :
                  /\ ValidationSample(scorer)[e].count = Quota(e)
                  /\ ValidationSample(scorer)[e].label = 1
                  /\ Quota(e) >= 20
            /\ ValidationSample(scorer)["quiet"].count = QuotaTotal
            /\ ValidationSample(scorer)["quiet"].label = 0
            /\ wmetrics[w].true_positives + wmetrics[w].false_negatives = QuotaTotal
            /\ wmetrics[w].false_positives + wmetrics[w].true_negatives = QuotaTotal

\* C24 witness: a validation run has returned its report.
C24_Witness ==
    /\ woutcome[1] = "validated"
    /\ wpc[1] = "publish"
    /\ wmetrics[1].true_positives + wmetrics[1].false_negatives = 2998

\* the report without the time it was computed at
Timeless(r) == [r EXCEPT !.computed_at = 0]

\* the report without that time and without what echoes the lookup
Sampled(r) ==
    [r EXCEPT !.computed_at = 0, !.donki_live_events = 0, !.historical_cme_catalog = 0]

LiveNext ==
    \/ EventLoop
    \/ \E w \in Workers : Worker(w)

SpecLive ==
    /\ Init
    /\ [][LiveNext]_vars
    /\ WF_vars(EventLoop)
    /\ \A w \in Workers : WF_vars(Worker(w))

\* C29 (as claimed): once RUNNING the scheduler comes back to IDLE, and it
\* is never RUNNING without a worker executing.
C29_RunningEndsAndHasWorker ==
    /\ validation_running ~> ~validation_running
    /\ [](validation_running => ActiveWorkers # {})

\* C29 (amended): every worker that starts runs to its end, and once
\* RUNNING the scheduler comes back to IDLE, whether the validation
\* returned, the fallback returned or both raised; the scheduler is RUNNING
\* only while a worker executes or while the launch that has set the flag
\* has not yet started its thread (lines 294-317).
C29_RunningEndsAndHasWorkerOrLaunch ==
    /\ validation_running ~> ~validation_running
    /\ \A w \in Workers : (wpc[w] \notin {"unborn", "done"}) ~> (wpc[w] = "done")
    /\ [](validation_running => (ActiveWorkers # {} \/ pc = "launch_start"))
    /\ [](\A w \in Workers : wpc[w] = "done" =>
             woutcome[w] \in {"validated", "fallback", "failed"})

\* C29 witness: a run whose validation and fallback both raised has ended,
\* and a later trigger has started the next run.
C29_Witness ==
    /\ wpc[1] = "done"
    /\ woutcome[1] = "failed"
    /\ started = 2
    /\ wpc[2] = "run_validation"
    /\ validation_running

====
